---- MODULE Spec2Model ----
(***************************************************************************)
(* development/lib/build-config.ts: the builds.yml schema (superstruct     *)
(* structs composed with coerce / refine / union), its validation with     *)
(* { coerce: true }, and the process-wide cache of loadBuildTypesConfig.   *)
(*                                                                         *)
(* A struct is modelled by the operator that runs it on a decoded value at *)
(* a path: it returns the status superstruct's run() ends with, the        *)
(* coerced value and the failures in the order they are yielded.           *)
(***************************************************************************)
EXTENDS Integers, Sequences, FiniteSets, TLC

VARIABLES
    buildsYml,          \* the document decoded from ./builds.yml as it is now
    cachedBuildTypes,   \* let cachedBuildTypes (null until a load succeeds)
    reads,              \* number of fs.readFileSync calls so far
    writes,             \* number of times the file was edited on disk
    returned,           \* outcome of every loadBuildTypesConfig call, in order
    input,              \* a value handed to validate(value, Struct, {coerce: true})
    at,                 \* the path the value sits at in the document
    output              \* what validate produced for input (NoOutput before)

vars == <<buildsYml, cachedBuildTypes, reads, writes, returned, input, at, output>>

(***************************************************************************)
(* Decoded values (the generic tree js-yaml produces).  Every value has    *)
(* the same record shape so that values of different JS types compare.     *)
(***************************************************************************)
Val(t, s, keys, vals) == [t |-> t, s |-> s, keys |-> keys, vals |-> vals]
Str(s) == Val("string", s, <<>>, <<>>)
Num(s) == Val("number", s, <<>>, <<>>)
Bool(s) == Val("boolean", s, <<>>, <<>>)
Undefined == Val("undefined", "undefined", <<>>, <<>>)
Null == Val("null", "null", <<>>, <<>>)
Obj(keys, vals) == Val("object", "", keys, vals)
IdxStr(i) == <<"0", "1", "2", "3", "4", "5", "6", "7">>[i + 1]
Arr(items) == Val("array", "", [i \in 1..Len(items) |-> IdxStr(i - 1)], items)

Range(seq) == { seq[i] : i \in 1..Len(seq) }

\* typeof x === 'object' && x != null
isObject(x) == x.t \in {"object", "array"}
\* isObject(x) && !Array.isArray(x)
isNonArrayObject(x) == x.t = "object"
\* x[k]
Get(x, k) ==
    IF \E i \in 1..Len(x.keys) : x.keys[i] = k
    THEN x.vals[CHOOSE i \in 1..Len(x.keys) : x.keys[i] = k]
    ELSE Undefined
\* k in x
Has(x, k) == \E i \in 1..Len(x.keys) : x.keys[i] = k
\* x[k] = v on an object
Put(x, k, v) ==
    IF Has(x, k)
    THEN [x EXCEPT !.vals = [i \in 1..Len(x.keys) |-> IF x.keys[i] = k THEN v ELSE x.vals[i]]]
    ELSE [x EXCEPT !.keys = Append(x.keys, k), !.vals = Append(x.vals, v)]

\* `${value}`: the string a template literal interpolates
RECURSIVE TemplateString(_)
TemplateString(value) ==
    CASE value.t = "object" -> "[object Object]"
      [] value.t = "array" ->
            LET item(i) == IF value.vals[i].t \in {"null", "undefined"}
                           THEN "" ELSE TemplateString(value.vals[i])
                join[i \in 0..Len(value.vals)] ==
                    IF i = 0 THEN ""
                    ELSE IF i = 1 THEN item(1)
                    ELSE join[i - 1] \o "," \o item(i)
            IN join[Len(value.vals)]
      [] OTHER -> value.s

\* superstruct print(): JSON.stringify for a string, the template-literal
\* string otherwise (messages are written here with ' for the backquote)
print(value) ==
    IF value.t = "string" THEN "\"" \o value.s \o "\"" ELSE TemplateString(value)

(***************************************************************************)
(* superstruct's run(): failures, statuses, results                        *)
(***************************************************************************)
Failure(message, path, refinement) ==
    [message |-> message, path |-> path, refinement |-> refinement]

Result(st, value, failures) ==
    [status |-> st, value |-> value, failures |-> failures]

\* an exception (TypeError) left the validator: validate() never returns
Thrown == Result("threw", Undefined, <<>>)

\* the failures of the entries, in the order run() yields them
Failures(rs) ==
    LET cat[i \in 0..Len(rs)] == IF i = 0 THEN <<>> ELSE cat[i - 1] \o rs[i].failures
    IN cat[Len(rs)]

AnyThrew(rs) == \E i \in 1..Len(rs) : rs[i].status = "threw"

\* run(): every failure yielded by the validator or an entry overwrites
\* `status` (not_refined if the failure carries a refinement, else not_valid)
status(failures) ==
    IF failures = <<>> THEN "valid"
    ELSE IF failures[Len(failures)].refinement # "" THEN "not_refined"
    ELSE "not_valid"

\* run(): the refiner runs unless status is not_valid; the value is yielded
\* only when status is valid
refine(value, failures, refinerFailures) ==
    IF status(failures) = "not_valid" THEN Result("not_valid", value, failures)
    ELSE IF refinerFailures # <<>>
         THEN Result("not_refined", value, failures \o refinerFailures)
         ELSE Result(status(failures), value, failures)

\* string()
string(value, path) ==
    IF value.t = "string" THEN Result("valid", value, <<>>)
    ELSE Result("not_valid", value,
            <<Failure("Expected a string, but received: " \o print(value), path, "")>>)

\* never(), reached for the keys an object() schema does not know
never(value, path) ==
    Result("not_valid", value,
        <<Failure("Expected a value of type 'never', but received: '"
                    \o print(value) \o "'", path, "")>>)

\* the run of object(schema) on the keys of value the schema does not name
Unknowns(value, knowns, path) ==
    LET n == Len(value.keys)
        rs == [i \in 1..n |->
                 IF value.keys[i] \in knowns THEN Result("valid", value.vals[i], <<>>)
                 ELSE never(value.vals[i], path \o <<value.keys[i]>>)]
    IN Failures(rs)

(***************************************************************************)
(* EnvDefinitionStruct, EnvArrayStruct, unique                             *)
(***************************************************************************)
\* refine(record(string(), any()), 'Env variable declaration', ...): the
\* condition of EnvDefinitionStruct's coerce
EnvVariableDeclaration(value, path) ==
    IF ~isNonArrayObject(value)
    THEN Result("not_valid", value,
            <<Failure("Expected an object, but received: " \o print(value), path, "")>>)
    ELSE refine(value, <<>>,
            IF Len(value.keys) # 1
            THEN <<Failure("Declaration should have only one property, the name",
                           path, "Env variable declaration")>>
            ELSE <<>>)

\* is(value, struct): only whether validation failed; its failures are dropped
is(result) == result.status = "valid"

\* object({ key: string(), value: unknown() })
EnvDefinitionObject(value, path) ==
    IF ~isObject(value)
    THEN Result("not_valid", value,
            <<Failure("Expected an object, but received: " \o print(value), path, "")>>)
    ELSE refine(value,
            string(Get(value, "key"), path \o <<"key">>).failures
                \o Unknowns(value, {"key", "value"}, path),
            <<>>)

\* (value) => ({ key: Object.keys(value)[0], value: Object.values(value)[0] })
EnvDefinitionCoercer(value) ==
    Obj(<<"key", "value">>, <<Str(value.keys[1]), value.vals[1]>>)

\* coerce(object({key, value}), <condition>, <coercer>) run with coerce: true
EnvDefinitionStruct(value, path) ==
    IF is(EnvVariableDeclaration(value, path))
    THEN EnvDefinitionObject(EnvDefinitionCoercer(value), path)
    ELSE EnvDefinitionObject(value, path)

\* wrong: a bare string is turned into the { key, value } record as well
EnvUnionCoercerToRecord(value) ==
    IF value.t = "string"
    THEN Obj(<<"key", "value">>, <<value, Undefined>>)
    ELSE EnvDefinitionStruct(value, <<>>).value

\* the value coerced by the first member of a union that validates it, s and
\* d being the members' runs under coercion; the value itself if none does
FirstValid(value, s, d) ==
    IF s.status = "valid" THEN s.value
    ELSE IF d.status = "valid" THEN d.value
    ELSE value

\* union([string(), EnvDefinitionStruct]).coercer
EnvUnionCoercer(value) ==
    FirstValid(value, string(value, <<>>), EnvDefinitionStruct(value, <<>>))

\* union([string(), EnvDefinitionStruct]).validator on the coerced value v, s
\* and d being the members' runs without coercion
EnvUnionValidator(v, path, s, d) ==
    IF s.status = "valid" \/ d.status = "valid"
    THEN Result("valid", v, <<>>)
    ELSE Result("not_valid", v,
           <<Failure("Expected the value to satisfy a union of 'string | object', but received: "
                       \o print(v), path, "")>>
           \o s.failures \o d.failures)

\* run() of the union after its coercer
EnvUnionCoerced(v, path) ==
    EnvUnionValidator(v, path, string(v, path), EnvDefinitionObject(v, path))

\* union([string(), EnvDefinitionStruct]) run with coerce: true
EnvUnion(value, path) == EnvUnionCoerced(EnvUnionCoercer(value), path)

\* a coerced env entry's key: typeof a === 'string' ? a : a.key
EnvKey(a) == IF a.t = "string" THEN a ELSE Get(a, "key")

\* wrong: compares the whole entries, not their keys
eqWholeEntry(a, b) == a = b

\* the equality function EnvArrayStruct hands to unique
eq(a, b) == EnvKey(a) = EnvKey(b)

\* lodash uniqWith(items, eq): the entries kept
uniqWith(items) ==
    LET kept[i \in 0..Len(items)] ==
            IF i = 0 THEN <<>>
            ELSE IF \E j \in 1..Len(kept[i - 1]) : eq(items[i], kept[i - 1][j])
                 THEN kept[i - 1]
                 ELSE Append(kept[i - 1], items[i])
    IN kept[Len(items)]

\* the refiner unique() adds to an array struct
unique(value, path) ==
    IF Len(uniqWith(value.vals)) = Len(value.vals) THEN <<>>
    ELSE <<Failure("Array contains duplicated values", path, "unique")>>

\* array(Element) under coercion: a copy with every element that ended valid
\* replaced by its coerced value
ArrayValue(value, rs) ==
    Arr([i \in 1..Len(value.vals) |->
            IF rs[i].status = "valid" THEN rs[i].value ELSE value.vals[i]])

\* run(): the refiner of a struct that refine() wrapped, given the failures
\* of the validator and the entries
Refined(coerced, failures, refinerFailures) ==
    refine(coerced, failures,
           IF status(failures) = "not_valid" THEN <<>> ELSE refinerFailures)

\* run() of EnvArrayStruct after its entries: the unique refiner
EnvArrayRefine(coerced, path, failures) ==
    Refined(coerced, failures, unique(coerced, path))

\* the entries of EnvArrayStruct, rs their runs
EnvArrayEntries(value, path, rs) ==
    EnvArrayRefine(ArrayValue(value, rs), path, Failures(rs))

\* unique(array(union([string(), EnvDefinitionStruct])), eq) run with coerce: true
EnvArrayStruct(value, path) ==
    IF value.t # "array"
    THEN Result("not_valid", value,
            <<Failure("Expected an array value, but received: " \o print(value), path, "")>>)
    ELSE EnvArrayEntries(value, path,
            [i \in 1..Len(value.vals) |->
                EnvUnion(value.vals[i], path \o <<IdxStr(i - 1)>>)])

\* optional(EnvArrayStruct)
OptionalEnvArrayStruct(value, path) ==
    IF value = Undefined THEN Result("valid", value, <<>>)
    ELSE EnvArrayStruct(value, path)

(***************************************************************************)
(* object() and record() entries under coercion                            *)
(***************************************************************************)
\* run(): an entry that ends valid yields its coerced value, which is stored
\* with `if (v !== undefined || k in value) value[k] = v`
Store(value, k, r) ==
    IF r.status = "valid" /\ (r.value # Undefined \/ Has(value, k))
    THEN Put(value, k, r.value)
    ELSE value

\* record(Key, Value).entries yields [k, k, Key] and then [k, v, Value]: the
\* key run stores the key itself under k, and only a Value run that ends
\* valid stores the coerced value over it
RecordValue(value, rs) ==
    Obj(value.keys,
        [i \in 1..Len(value.keys) |->
            IF rs[i].status = "valid" THEN rs[i].value ELSE Str(value.keys[i])])

\* boolean()
boolean(value, path) ==
    IF value.t = "boolean" THEN Result("valid", value, <<>>)
    ELSE Result("not_valid", value,
            <<Failure("Expected a value of type 'boolean', but received: '"
                        \o print(value) \o "'", path, "")>>)

\* union([string(), literal(false)])
StringOrFalse(value, path) ==
    IF value.t = "string" \/ value = Bool("false") THEN Result("valid", value, <<>>)
    ELSE Result("not_valid", value,
            <<Failure("Expected the value to satisfy a union of 'string | literal', but received: "
                        \o print(value), path, ""),
              Failure("Expected a string, but received: " \o print(value), path, ""),
              Failure("Expected the literal 'false', but received: " \o print(value),
                      path, "")>>)

\* optional(unique(array(string()))): no eq is given, lodash compares whole
\* elements
UniqueStrings(value, path) ==
    IF value = Undefined THEN Result("valid", value, <<>>)
    ELSE IF value.t # "array"
    THEN Result("not_valid", value,
            <<Failure("Expected an array value, but received: " \o print(value), path, "")>>)
    ELSE refine(value,
            Failures([i \in 1..Len(value.vals) |->
                        string(value.vals[i], path \o <<IdxStr(i - 1)>>)]),
            IF \E i, j \in 1..Len(value.vals) : i < j /\ value.vals[i] = value.vals[j]
            THEN <<Failure("Array contains duplicated values", path, "unique")>>
            ELSE <<>>)

(***************************************************************************)
(* BuildTypeStruct                                                         *)
(***************************************************************************)
\* optional(boolean())
OptionalBoolean(value, path) ==
    IF value = Undefined THEN Result("valid", value, <<>>) ELSE boolean(value, path)

\* the entries of BuildTypeStruct, in the order of its schema
BuildTypeEntries(value, path, features, env, isPrerelease, manifestOverrides, buildNameOverride) ==
    refine(Store(Store(value, "features", features), "env", env),
           features.failures \o env.failures \o isPrerelease.failures
             \o manifestOverrides.failures \o buildNameOverride.failures
             \o Unknowns(value, {"features", "env", "isPrerelease",
                                 "manifestOverrides", "buildNameOverride"}, path),
           <<>>)

\* object({ features, env, isPrerelease, manifestOverrides, buildNameOverride })
BuildTypeStruct(value, path) ==
    IF ~isObject(value)
    THEN Result("not_valid", value,
            <<Failure("Expected an object, but received: " \o print(value), path, "")>>)
    ELSE BuildTypeEntries(value, path,
            UniqueStrings(Get(value, "features"), path \o <<"features">>),
            OptionalEnvArrayStruct(Get(value, "env"), path \o <<"env">>),
            OptionalBoolean(Get(value, "isPrerelease"), path \o <<"isPrerelease">>),
            StringOrFalse(Get(value, "manifestOverrides"), path \o <<"manifestOverrides">>),
            StringOrFalse(Get(value, "buildNameOverride"), path \o <<"buildNameOverride">>))

\* the entries of record(string(), BuildTypeStruct), rs the build types' runs
BuildTypesRecordEntries(value, rs) == refine(RecordValue(value, rs), Failures(rs), <<>>)

\* record(string(), BuildTypeStruct)
BuildTypesRecord(value, path) ==
    IF ~isNonArrayObject(value)
    THEN Result("not_valid", value,
            <<Failure("Expected an object, but received: " \o print(value), path, "")>>)
    ELSE BuildTypesRecordEntries(value,
            [i \in 1..Len(value.keys) |->
                BuildTypeStruct(value.vals[i], path \o <<value.keys[i]>>)])

(***************************************************************************)
(* AssetStruct, FeatureStruct, FeaturesStruct                              *)
(***************************************************************************)
\* ExclusiveIncludeAssetStruct is defined, but no struct of the schema refers
\* to it
\* object({ exclusiveInclude: string() })
ExclusiveIncludeObject(v, path) ==
    IF ~isObject(v)
    THEN Result("not_valid", v,
            <<Failure("Expected an object, but received: " \o print(v), path, "")>>)
    ELSE refine(v,
            string(Get(v, "exclusiveInclude"), path \o <<"exclusiveInclude">>).failures
                \o Unknowns(v, {"exclusiveInclude"}, path),
            <<>>)

\* coerce(object({ exclusiveInclude: string() }), string(), ...)
ExclusiveIncludeAssetStruct(value, path) ==
    ExclusiveIncludeObject(
        IF value.t = "string" THEN Obj(<<"exclusiveInclude">>, <<value>>) ELSE value, path)

\* AssetStruct is declared as a type only (an interface intersection); the
\* identifier FeatureStruct hands to optional() has no value at run time
AssetStruct == Undefined

\* optional(AssetStruct): value === undefined || struct.validator(value, ctx),
\* which reads .validator of undefined for every value that is present
OptionalAssetStruct(value, path) ==
    IF value = Undefined THEN Result("valid", value, <<>>)
    ELSE IF AssetStruct = Undefined THEN Thrown
    ELSE ExclusiveIncludeAssetStruct(value, path)

\* the entries of FeatureStruct, in the order of its schema
FeatureEntries(value, path, env, assets) ==
    IF assets.status = "threw" THEN Thrown
    ELSE refine(Store(Store(value, "env", env), "assets", assets),
                env.failures \o assets.failures \o Unknowns(value, {"env", "assets"}, path),
                <<>>)

\* object({ env: optional(EnvArrayStruct), assets: optional(AssetStruct) })
FeatureStruct(value, path) ==
    IF ~isObject(value)
    THEN Result("not_valid", value,
            <<Failure("Expected an object, but received: " \o print(value), path, "")>>)
    ELSE FeatureEntries(value, path,
            OptionalEnvArrayStruct(Get(value, "env"), path \o <<"env">>),
            OptionalAssetStruct(Get(value, "assets"), path \o <<"assets">>))

\* coerce(FeatureStruct, nullable(never()), () => ({}))
CoercedFeatureStruct(value, path) ==
    FeatureStruct(IF value = Null THEN Obj(<<>>, <<>>) ELSE value, path)

\* for (const env of feature?.env ?? []) over Object.values(value), keeping
\* the entries with typeof env !== 'string'
Definitions(value) ==
    LET envOf(feature) ==
            IF isObject(feature) /\ Get(feature, "env").t = "array"
            THEN SelectSeq(Get(feature, "env").vals, LAMBDA env : env.t # "string")
            ELSE <<>>
        all[i \in 0..Len(value.vals)] ==
            IF i = 0 THEN <<>> ELSE all[i - 1] \o envOf(value.vals[i])
    IN all[Len(value.vals)]

\* `Multiple defined features have a definition of "${env}" env variable, ...`
ConflictMessage(env) ==
    "Multiple defined features have a definition of \"" \o TemplateString(env)
        \o "\" env variable, resulting in a conflict"

\* wrong: definitions.has(env) looks up the whole entry, key and value
FeatureDefinitionsWholeEntry(value, path) ==
    LET defs == Definitions(value)
        conflicts == SelectSeq([i \in 1..Len(defs) |-> i],
                        LAMBDA i : \E j \in 1..(i - 1) : defs[j] = defs[i])
    IN [n \in 1..Len(conflicts) |->
          Failure(ConflictMessage(defs[conflicts[n]]), path, "feature definitions")]

\* the refiner of FeaturesStruct: one failure for every definition whose
\* env.key is already in the set `definitions`
FeatureDefinitions(value, path) ==
    LET defs == Definitions(value)
        conflicts == SelectSeq([i \in 1..Len(defs) |-> i],
                        LAMBDA i : \E j \in 1..(i - 1) :
                                      Get(defs[j], "key") = Get(defs[i], "key"))
    IN [n \in 1..Len(conflicts) |->
          Failure(ConflictMessage(defs[conflicts[n]]), path, "feature definitions")]

\* run() of FeaturesStruct after its entries: the 'feature definitions' refiner
FeaturesRefine(coerced, path, failures) ==
    Refined(coerced, failures, FeatureDefinitions(coerced, path))

\* the entries of FeaturesStruct, rs the runs of the features
FeaturesEntries(value, path, rs) ==
    IF AnyThrew(rs) THEN Thrown
    ELSE FeaturesRefine(RecordValue(value, rs), path, Failures(rs))

\* refine(record(string(), coerce(FeatureStruct, ...)), 'feature definitions', ...)
FeaturesStruct(value, path) ==
    IF ~isNonArrayObject(value)
    THEN Result("not_valid", value,
            <<Failure("Expected an object, but received: " \o print(value), path, "")>>)
    ELSE FeaturesEntries(value, path,
            [i \in 1..Len(value.keys) |->
                CoercedFeatureStruct(value.vals[i], path \o <<value.keys[i]>>)])

(***************************************************************************)
(* BuildTypesStruct                                                        *)
(***************************************************************************)
\* Object.keys(x) for an x that is neither undefined nor null
ObjectKeys(x) ==
    CASE isObject(x) -> x.keys
      [] x.t = "string" -> [i \in 1..Len(x.s) |-> IdxStr(i - 1)]
      [] OTHER -> <<>>

\* `Default build type "${value.default}" does not exist in builds declarations`
DefaultMessage(default) ==
    "Default build type \"" \o TemplateString(default)
        \o "\" does not exist in builds declarations"

\* wrong: looks the default up among the features
DefaultExistsInFeatures(value, path) ==
    IF Get(value, "default").t = "string"
          /\ Get(value, "default").s \in Range(ObjectKeys(Get(value, "features")))
    THEN <<>>
    ELSE <<Failure(DefaultMessage(Get(value, "default")), path, "BuildTypes")>>

\* the refiner of BuildTypesStruct:
\* Object.keys(value.buildTypes).includes(value.default)
DefaultExists(value, path) ==
    IF Get(value, "default").t = "string"
          /\ Get(value, "default").s \in Range(ObjectKeys(Get(value, "buildTypes")))
    THEN <<>>
    ELSE <<Failure(DefaultMessage(Get(value, "default")), path, "BuildTypes")>>

\* run(): the refiner of BuildTypesStruct on the coerced document
BuildTypesRefine(coerced, path, failures) ==
    IF status(failures) = "not_valid" THEN Result("not_valid", coerced, failures)
    \* Object.keys(undefined) and Object.keys(null) throw a TypeError
    ELSE IF Get(coerced, "buildTypes").t \in {"undefined", "null"} THEN Thrown
    ELSE refine(coerced, failures, DefaultExists(coerced, path))

\* the entries of BuildTypesStruct, in the order of its schema
BuildTypesEntries(value, path, default, buildTypes, features, env) ==
    IF features.status = "threw" THEN Thrown
    ELSE BuildTypesRefine(
            Store(Store(Store(Store(value, "default", default),
                "buildTypes", buildTypes), "features", features), "env", env),
            path,
            default.failures \o buildTypes.failures \o features.failures \o env.failures
                \o Unknowns(value, {"default", "buildTypes", "features", "env"}, path))

\* refine(object({ default, buildTypes, features, env }), 'BuildTypes', ...)
BuildTypesStruct(value, path) ==
    IF ~isObject(value)
    THEN Result("not_valid", value,
            <<Failure("Expected an object, but received: " \o print(value), path, "")>>)
    ELSE BuildTypesEntries(value, path,
            string(Get(value, "default"), path \o <<"default">>),
            BuildTypesRecord(Get(value, "buildTypes"), path \o <<"buildTypes">>),
            FeaturesStruct(Get(value, "features"), path \o <<"features">>),
            EnvArrayStruct(Get(value, "env"), path \o <<"env">>))

(***************************************************************************)
(* loadBuildTypesConfig and its cache                                      *)
(***************************************************************************)
\* path.resolve('./builds.yml'), relative to the project root
BUILDS_YML_PATH == "builds.yml"

\* failure.path.join('/')
JoinPath(path) ==
    LET join[i \in 0..Len(path)] ==
            IF i = 0 THEN ""
            ELSE IF i = 1 THEN path[1]
            ELSE join[i - 1] \o "/" \o path[i]
    IN join[Len(path)]

constructFailureMessage(failures) ==
    LET line(f) == f.message \o " (" \o BUILDS_YML_PATH \o ":." \o JoinPath(f.path) \o ")"
        lines[i \in 0..Len(failures)] ==
            IF i = 0 THEN ""
            ELSE IF i = 1 THEN line(failures[1])
            ELSE lines[i - 1] \o "\n  -> " \o line(failures[i])
    IN "Failed to parse builds.yml\n  -> " \o lines[Len(failures)] \o "\n"

MaxCalls == 3
MaxWrites == 1

\* an object of the process: which allocation it is, and its content
Object(kind, n, val) == [ref |-> <<kind, n>>, val |-> val]

\* let cachedBuildTypes = null
NullObject == Object("null", 0, Null)

Returns(object) ==
    [kind |-> "return", ref |-> object.ref, val |-> object.val,
     message |-> "", version |-> writes]

Throws(error, message) ==
    [kind |-> error, ref |-> <<"null", 0>>, val |-> Null,
     message |-> message, version |-> writes]

\* loadBuildTypesConfig after validate(buildsData, BuildTypesStruct, ...):
\* throw on failures, else cachedBuildTypes = result; return buildsData
Validated(buildsData, result) ==
    CASE result.status = "threw" ->
            /\ returned' = Append(returned, Throws("TypeError", ""))
            /\ UNCHANGED cachedBuildTypes
      [] result.status \in {"not_valid", "not_refined"} ->
            /\ returned' = Append(returned,
                  Throws("AssertionError", constructFailureMessage(result.failures)))
            /\ UNCHANGED cachedBuildTypes
      [] OTHER ->
            /\ cachedBuildTypes' = Object("result", buildsData.ref[2], result.value)
            /\ returned' = Append(returned, Returns(buildsData))

\* wrong: the cache is not consulted, every call reads and validates
loadBuildTypesConfigNoCache ==
    /\ Len(returned) < MaxCalls
    /\ reads' = reads + 1
    /\ Validated(Object("buildsData", reads + 1, buildsYml), BuildTypesStruct(buildsYml, <<>>))
    /\ UNCHANGED <<buildsYml, writes, input, at, output>>

\* function loadBuildTypesConfig(): the cached object if there is one, else
\* read, decode, validate with coercion; throw on failures; keep the result
\* in cachedBuildTypes and return buildsData
loadBuildTypesConfig ==
    /\ Len(returned) < MaxCalls
    /\ IF cachedBuildTypes # NullObject
       THEN /\ returned' = Append(returned, Returns(cachedBuildTypes))
            /\ UNCHANGED <<cachedBuildTypes, reads>>
       ELSE /\ reads' = reads + 1
            /\ Validated(Object("buildsData", reads + 1, buildsYml),
                         BuildTypesStruct(buildsYml, <<>>))
    /\ UNCHANGED <<buildsYml, writes, input, at, output>>

(***************************************************************************)
(* Documents                                                               *)
(***************************************************************************)
\* an object with the given keys, those whose value is absent left out
Compact(keys, vals) ==
    LET idx == SelectSeq([i \in 1..Len(keys) |-> i], LAMBDA i : vals[i] # Undefined)
    IN Obj([j \in 1..Len(idx) |-> keys[idx[j]]], [j \in 1..Len(idx) |-> vals[idx[j]]])

BuildType(features, env, manifestOverrides) ==
    Compact(<<"features", "env", "manifestOverrides", "buildNameOverride">>,
            <<features, env, manifestOverrides, Bool("false")>>)

DocDefaults == { Str("stable"), Str("beta"), Str("missing"), Num("1") }

DocBuildTypes ==
    { Obj(<<"stable">>, <<BuildType(Undefined, Undefined, Bool("false"))>>),
      Obj(<<"stable", "beta">>,
          <<BuildType(Arr(<<Str("a")>>), Arr(<<Str("X"), Obj(<<"Y">>, <<Num("1")>>)>>),
                      Str("./manifest.json")),
            BuildType(Undefined, Undefined, Bool("false"))>>),
      Obj(<<"stable">>, <<BuildType(Undefined, Undefined, Undefined)>>),
      Obj(<<"stable">>,
          <<BuildType(Undefined, Arr(<<Str("X"), Obj(<<"X">>, <<Num("1")>>)>>),
                      Bool("false"))>>),
      Obj(<<"stable">>, <<BuildType(Arr(<<Str("a"), Str("a")>>), Undefined, Bool("false"))>>),
      Undefined }

Feature(env, assets) == Compact(<<"env", "assets">>, <<env, assets>>)

DocFeatures ==
    { Obj(<<>>, <<>>),
      Obj(<<"a">>, <<Null>>),
      Obj(<<"a", "b">>,
          <<Feature(Arr(<<Obj(<<"X">>, <<Num("1")>>)>>), Undefined),
            Feature(Arr(<<Obj(<<"X">>, <<Num("2")>>)>>), Undefined)>>),
      Obj(<<"a", "b">>,
          <<Feature(Arr(<<Str("X")>>), Undefined), Feature(Arr(<<Str("X")>>), Undefined)>>),
      Obj(<<"a">>, <<Str("oops")>>),
      Obj(<<"a", "b">>,
          <<Str("oops"), Feature(Arr(<<Str("X"), Str("X")>>), Undefined)>>),
      Obj(<<"a", "b", "c", "d">>,
          <<Str("oops"),
            Feature(Arr(<<Obj(<<"X">>, <<Num("1")>>)>>), Undefined),
            Feature(Arr(<<Obj(<<"X">>, <<Num("2")>>)>>), Undefined),
            Feature(Arr(<<Str("Y"), Str("Y")>>), Undefined)>>),
      Obj(<<"a">>, <<Feature(Undefined, Str("src/**"))>>) }

DocEnvs ==
    { Arr(<<>>),
      Arr(<<Str("X"), Obj(<<"Y">>, <<Num("1")>>)>>),
      Arr(<<Str("X"), Str("X")>>),
      Arr(<<Num("5")>>),
      Undefined }

Documents ==
    { Compact(<<"default", "buildTypes", "features", "env">>, <<d, b, f, e>>) :
        d \in DocDefaults, b \in DocBuildTypes, f \in DocFeatures, e \in DocEnvs }

NoOutput == Result("none", Undefined, <<>>)

(***************************************************************************)
(* The process: calls of loadBuildTypesConfig, edits of builds.yml         *)
(***************************************************************************)
Init ==
    /\ buildsYml \in Documents
    /\ cachedBuildTypes = NullObject
    /\ reads = 0
    /\ writes = 0
    /\ returned = <<>>
    /\ input = Undefined
    /\ at = <<>>
    /\ output = NoOutput

\* somebody edits builds.yml while the process runs
WriteBuildsYml ==
    /\ writes < MaxWrites
    /\ \E d \in DocDefaults :
          /\ Get(buildsYml, "default") # d
          /\ buildsYml' = Put(buildsYml, "default", d)
    /\ writes' = writes + 1
    /\ UNCHANGED <<cachedBuildTypes, reads, returned, input, at, output>>

Next == loadBuildTypesConfig \/ WriteBuildsYml

Spec == Init /\ [][Next]_vars

(***************************************************************************)
(* Validation of a whole document                                          *)
(***************************************************************************)
InitDoc ==
    /\ input \in Documents
    /\ at = <<>>
    /\ output = NoOutput
    /\ buildsYml = Undefined
    /\ cachedBuildTypes = NullObject
    /\ reads = 0
    /\ writes = 0
    /\ returned = <<>>

\* validate(input, BuildTypesStruct, { coerce: true })
ValidateDocument ==
    /\ output = NoOutput
    /\ output' = BuildTypesStruct(input, at)
    /\ UNCHANGED <<buildsYml, cachedBuildTypes, reads, writes, returned, input, at>>

NextDoc == ValidateDocument

SpecDoc == InitDoc /\ [][NextDoc]_vars

(***************************************************************************)
(* Validation of a feature map                                             *)
(***************************************************************************)
MaxFeatures == 3

FeatureNames == <<"a", "b", "c", "d", "e">>

FeatureValues ==
    { Null,
      Str("oops"),
      Feature(Arr(<<Str("X")>>), Undefined),
      Feature(Arr(<<Obj(<<"X">>, <<Num("1")>>)>>), Undefined),
      Feature(Arr(<<Obj(<<"X">>, <<Num("2")>>)>>), Undefined),
      Feature(Arr(<<Obj(<<"Y">>, <<Num("1")>>), Str("X")>>), Undefined),
      Feature(Arr(<<Obj(<<"X">>, <<Num("1")>>), Obj(<<"X">>, <<Num("2")>>)>>), Undefined),
      Feature(Arr(<<Obj(<<"key", "value">>, <<Str("X"), Num("1")>>)>>), Undefined),
      Feature(Arr(<<Obj(<<>>, <<>>)>>), Undefined),
      Feature(Undefined, Str("src/**")),
      Feature(Arr(<<Str("Y")>>), Obj(<<"exclusiveInclude">>, <<Str("src/**")>>)),
      Feature(Undefined, Obj(<<"src", "dest">>, <<Str("a"), Str("b")>>)) }

InitFeatures ==
    /\ \E k \in 0..MaxFeatures : \E vals \in [1..k -> FeatureValues] :
          input = Obj(SubSeq(FeatureNames, 1, k), vals)
    /\ at = <<"features">>
    /\ output = NoOutput
    /\ buildsYml = Undefined
    /\ cachedBuildTypes = NullObject
    /\ reads = 0
    /\ writes = 0
    /\ returned = <<>>

\* validate(input, FeaturesStruct, { coerce: true })
ValidateFeatures ==
    /\ output = NoOutput
    /\ output' = FeaturesStruct(input, at)
    /\ UNCHANGED <<buildsYml, cachedBuildTypes, reads, writes, returned, input, at>>

NextFeatures == ValidateFeatures

SpecFeatures == InitFeatures /\ [][NextFeatures]_vars

(***************************************************************************)
(* Validation of one env sequence                                          *)
(***************************************************************************)
MaxEnv == 3

\* env entries as they can be written in builds.yml
EnvEntries ==
    { Str("X"), Str("Y"),
      Obj(<<"X">>, <<Num("1")>>), Obj(<<"X">>, <<Num("2")>>),
      Obj(<<"Y">>, <<Null>>),
      Obj(<<>>, <<>>),
      Obj(<<"X", "Y">>, <<Num("1"), Num("2")>>),
      Obj(<<"key", "value">>, <<Str("X"), Num("1")>>),
      Num("5") }

SeqsUpTo(S, n) == UNION { [1..k -> S] : k \in 0..n }

EnvPaths == { <<"env">>, <<"buildTypes", "stable", "env">>, <<"features", "a", "env">> }

InitEnv ==
    /\ input \in { Arr(items) : items \in SeqsUpTo(EnvEntries, MaxEnv) }
    /\ at \in EnvPaths
    /\ output = NoOutput
    /\ buildsYml = Undefined
    /\ cachedBuildTypes = NullObject
    /\ reads = 0
    /\ writes = 0
    /\ returned = <<>>

\* validate(input, EnvArrayStruct, { coerce: true })
ValidateEnv ==
    /\ output = NoOutput
    /\ output' = EnvArrayStruct(input, at)
    /\ UNCHANGED <<buildsYml, cachedBuildTypes, reads, writes, returned, input, at>>

NextEnv == ValidateEnv

SpecEnv == InitEnv /\ [][NextEnv]_vars

(***************************************************************************)
(* Properties of the validation of one env sequence                        *)
(***************************************************************************)
Done == output # NoOutput

Messages(fs) == { fs[i].message : i \in 1..Len(fs) }

UniqueMessage == "Array contains duplicated values"
DeclarationMessage == "Declaration should have only one property, the name"

\* the key an entry declares, read off the entry as written: the string
\* itself, the one name of { name: value }, or the key of { key, value }
DeclaredKey(e) ==
    IF e.t = "string" THEN e.s
    ELSE IF Len(e.keys) = 1 THEN e.keys[1]
    ELSE Get(e, "key").s

EntriesPassShape ==
    \A i \in 1..Len(input.vals) :
        EnvUnion(input.vals[i], at \o <<IdxStr(i - 1)>>).status = "valid"

HasDuplicateKey ==
    \E i, j \in 1..Len(input.vals) :
        i < j /\ DeclaredKey(input.vals[i]) = DeclaredKey(input.vals[j])

UniqueFailures ==
    { i \in 1..Len(output.failures) : output.failures[i].message = UniqueMessage }

\* C5: an env sequence whose entries all pass shape validation gets exactly
\* one "Array contains duplicated values" failure, at the sequence's path,
\* when two entries declare the same key (values ignored, however many
\* duplicates), and no uniqueness failure when all keys are distinct.
C5_UniqueByKey ==
    (Done /\ EntriesPassShape) =>
        IF HasDuplicateKey
        THEN /\ Cardinality(UniqueFailures) = 1
             /\ \A i \in UniqueFailures : output.failures[i].path = at
             /\ output.status = "not_refined"
        ELSE UniqueFailures = {} /\ output.status = "valid"

C5_Witness ==
    /\ Done /\ EntriesPassShape
    /\ Len(input.vals) = 3
    /\ \A i \in 1..3 : DeclaredKey(input.vals[i]) = "X"
    /\ input.vals[1].t = "string" /\ input.vals[2].t = "object"
    /\ Cardinality(UniqueFailures) = 1

IsSingleKeyObject(e) == e.t = "object" /\ Len(e.keys) = 1

CanonicalRecord(name, value) == Obj(<<"key", "value">>, <<Str(name), value>>)

\* C4 as stated: in a successfully validated env sequence every bare string
\* "FOO" has become the record {key: "FOO", value: undefined}, so no bare
\* string remains.
C4_StringBecomesRecord ==
    (Done /\ output.status = "valid") =>
        \A i \in 1..Len(input.vals) :
            input.vals[i].t = "string" =>
                output.value.vals[i] = CanonicalRecord(input.vals[i].s, Undefined)

\* C4 amended: in a successfully validated env sequence a bare string stays
\* the same bare string, and only a single-key object {name: value} becomes
\* the record {key: name, value: value}; "FOO" and {FOO: undefined} therefore
\* normalize to different entries.
C4_StringStaysString ==
    (Done /\ output.status = "valid") =>
        \A i \in 1..Len(input.vals) :
            /\ input.vals[i].t = "string" => output.value.vals[i] = input.vals[i]
            /\ IsSingleKeyObject(input.vals[i]) =>
                 output.value.vals[i] =
                     CanonicalRecord(input.vals[i].keys[1], input.vals[i].vals[1])

C4_Witness ==
    /\ Done /\ output.status = "valid"
    /\ input.vals = <<Str("Y"), Obj(<<"X">>, <<Num("1")>>)>>
    /\ output.value.vals = <<Str("Y"), CanonicalRecord("X", Num("1"))>>

\* C6: an object entry with zero keys or with more than one key makes
\* validation fail with the failure "Declaration should have only one
\* property, the name"; an entry {name: value} is normalized to
\* {key: name, value: value}.  (An entry already written as the canonical
\* record {key, value} is left out of the first part.)
C6_DeclarationFailureReported ==
    Done =>
        \A i \in 1..Len(input.vals) :
            /\ (/\ input.vals[i].t = "object"
                /\ Len(input.vals[i].keys) # 1
                /\ input.vals[i].keys # <<"key", "value">>) =>
                 /\ output.status # "valid"
                 /\ DeclarationMessage \in Messages(output.failures)
            /\ (IsSingleKeyObject(input.vals[i]) /\ output.status = "valid") =>
                 output.value.vals[i] =
                     CanonicalRecord(input.vals[i].keys[1], input.vals[i].vals[1])

(***************************************************************************)
(* Properties of the validation of a feature map                           *)
(***************************************************************************)
\* the env entries of a feature as written
RawEnv(feature) ==
    IF isObject(feature) /\ Get(feature, "env").t = "array"
    THEN Get(feature, "env").vals
    ELSE <<>>

ShapeFailures == { i \in 1..Len(output.failures) : output.failures[i].refinement = "" }

ConflictFailures ==
    { i \in 1..Len(output.failures) : output.failures[i].refinement = "feature definitions" }

\* two different features have an entry with the same key, whatever the form
SharedKey ==
    \E i, j \in 1..Len(input.vals) :
        /\ i < j
        /\ \E e1 \in Range(RawEnv(input.vals[i])), e2 \in Range(RawEnv(input.vals[j])) :
              DeclaredKey(e1) = DeclaredKey(e2)

\* two different features have an entry in object form with the same key
SharedDefinition ==
    \E i, j \in 1..Len(input.vals) :
        /\ i < j
        /\ \E e1 \in Range(RawEnv(input.vals[i])), e2 \in Range(RawEnv(input.vals[j])) :
              /\ e1.t = "object" /\ e2.t = "object"
              /\ DeclaredKey(e1) = DeclaredKey(e2)

EveryFeatureValid ==
    \A i \in 1..Len(input.vals) :
        CoercedFeatureStruct(input.vals[i], at \o <<input.keys[i]>>).status = "valid"

\* C3 as stated: a feature map that passes shape validation and in which
\* two different features have an env entry with the same key, bare string
\* or {name: value}, is rejected with a feature-conflict failure.
C3_SharedKeyRejected ==
    (Done /\ output.status # "threw" /\ ShapeFailures = {} /\ SharedKey) =>
        output.status # "valid" /\ ConflictFailures # {}

\* C3 amended: in a feature map whose features each validate without any
\* failure, validation reports a feature-conflict failure exactly when two
\* different features have an entry in object form ({name: value}) with the
\* same key; entries written as bare strings take no part in the check, so
\* {a: {env: ["X"]}, b: {env: ["X"]}} is accepted.
C3_SharedDefinitionRejected ==
    (Done /\ EveryFeatureValid) =>
        /\ SharedDefinition <=> ConflictFailures # {}
        /\ SharedDefinition => output.status = "not_refined"
        /\ ~SharedDefinition => output.status = "valid"

C3_Witness ==
    /\ Done /\ EveryFeatureValid
    /\ Len(input.vals) = 3
    /\ RawEnv(input.vals[1]) = <<Obj(<<"X">>, <<Num("1")>>)>>
    /\ RawEnv(input.vals[2]) = <<Str("X")>>
    /\ RawEnv(input.vals[3]) = <<Obj(<<"X">>, <<Num("2")>>)>>
    /\ Cardinality(ConflictFailures) = 1

HasAssets(feature) == isObject(feature) /\ Has(feature, "assets")

\* the canonical form of an asset value
CanonicalAsset(asset) ==
    IF asset.t = "string" THEN Obj(<<"exclusiveInclude">>, <<asset>>) ELSE asset

IsPrefix(p, q) == Len(p) <= Len(q) /\ SubSeq(q, 1, Len(p)) = p

\* C8: a feature's assets value, written as a bare string p, as
\* {exclusiveInclude: p} or as {src: a, dest: b}, is validated without a
\* failure for the asset, and is normalized to {exclusiveInclude: p} in the
\* first case and returned unchanged in the other two.
C8_AssetsNormalized ==
    Done =>
        \A i \in 1..Len(input.vals) :
            HasAssets(input.vals[i]) =>
                /\ output.status # "threw"
                /\ \A n \in 1..Len(output.failures) :
                      ~IsPrefix(at \o <<input.keys[i], "assets">>, output.failures[n].path)
                /\ output.status = "valid" =>
                      Get(output.value.vals[i], "assets")
                          = CanonicalAsset(Get(input.vals[i], "assets"))

\* the keys that a later feature defines again, one for every reappearance
Reappearances ==
    { <<j, n>> \in (1..Len(input.vals)) \X (1..2) :
        /\ n <= Len(RawEnv(input.vals[j]))
        /\ RawEnv(input.vals[j])[n].t = "object"
        /\ \E i \in 1..(j - 1) :
              \E e \in Range(RawEnv(input.vals[i])) :
                  e.t = "object" /\ DeclaredKey(e) = DeclaredKey(RawEnv(input.vals[j])[n]) }

\* C9: every feature-conflict failure reads 'Multiple defined features have
\* a definition of "k" env variable, resulting in a conflict' with k the key
\* that two features define, and there is one such failure for every
\* reappearance of a key.
C9_ConflictNamesKey ==
    (Done /\ EveryFeatureValid) =>
        /\ Cardinality(ConflictFailures) = Cardinality(Reappearances)
        /\ \A i \in ConflictFailures :
              \E r \in Reappearances :
                  output.failures[i].message =
                      "Multiple defined features have a definition of \""
                          \o DeclaredKey(RawEnv(input.vals[r[1]])[r[2]])
                          \o "\" env variable, resulting in a conflict"

(***************************************************************************)
(* Properties of the validation of a whole document                        *)
(***************************************************************************)
DefaultFailures ==
    { i \in 1..Len(output.failures) : output.failures[i].refinement = "BuildTypes" }

DefaultNamesBuildType ==
    /\ Get(input, "default").t = "string"
    /\ isNonArrayObject(Get(input, "buildTypes"))
    /\ Get(input, "default").s \in Range(Get(input, "buildTypes").keys)

\* C7: for a document that passes all per-field shape validation, the
\* default-exists failure, naming the default, is reported if and only if
\* `default` is not a key of `buildTypes`; with `default` naming a build type
\* and no other failure, validation succeeds.
C7_DefaultExists ==
    (Done /\ output.status # "threw" /\ ShapeFailures = {}) =>
        /\ DefaultFailures # {} <=> ~DefaultNamesBuildType
        /\ \A i \in DefaultFailures :
              /\ output.failures[i].message =
                    "Default build type \"" \o Get(input, "default").s
                        \o "\" does not exist in builds declarations"
              /\ output.failures[i].path = at
        /\ (DefaultNamesBuildType /\ Len(output.failures) = 0) =>
              /\ output.status = "valid"
              /\ Get(output.value, "default") = Get(input, "default")

C7_Witness ==
    /\ Done /\ output.status = "not_refined" /\ ShapeFailures = {}
    /\ Get(input, "default") = Str("missing")
    /\ Cardinality(DefaultFailures) = 1
    /\ UniqueMessage \in Messages(output.failures)

\* C10: in a validation result a feature-conflict failure never comes with
\* a shape failure located under `features`, and a default-exists failure
\* never comes with a shape failure anywhere in the document.
C10_CrossChecksSkipShapeFailures ==
    (Done /\ output.status # "threw") =>
        /\ ~(/\ ConflictFailures # {}
             /\ \E i \in ShapeFailures : IsPrefix(<<"features">>, output.failures[i].path))
        /\ ~(DefaultFailures # {} /\ ShapeFailures # {})

(***************************************************************************)
(* Properties of loadBuildTypesConfig                                      *)
(***************************************************************************)
Returned == { i \in 1..Len(returned) : returned[i].kind = "return" }

\* C1: every call of loadBuildTypesConfig that returns, the first one
\* included, returns the same object, and that object is the normalized
\* document validation produced.
C1_SameNormalizedObject ==
    \A i, j \in Returned :
        /\ returned[i].ref = returned[j].ref
        /\ returned[i].ref[1] = "result"

\* C2: once a call of loadBuildTypesConfig has succeeded, cachedBuildTypes
\* keeps its value in every later state and no later call reads the file.
C2_CacheNeverReplaced ==
    [][cachedBuildTypes # NullObject =>
          (cachedBuildTypes' = cachedBuildTypes /\ reads' = reads)]_vars

C2_Witness ==
    /\ cachedBuildTypes # NullObject
    /\ reads = 1
    /\ Get(buildsYml, "default") = Str("missing")
    /\ \E i \in Returned :
          /\ i >= 2
          /\ returned[i].version = 1
          /\ returned[i].ref = cachedBuildTypes.ref

====
